---- MODULE Spec2Model ----
(***************************************************************************)
(* Model of executeTasksInternal (src/lib/index.ts), the engine shared by  *)
(* all(), allSettled() and flow().                                         *)
(*                                                                         *)
(* The JavaScript run-to-completion discipline is modelled directly: every *)
(* action is one synchronous stretch of code.  Promise reactions created   *)
(* by the engine are jobs of the microtask queue mq and run in FIFO order. *)
(* A task's own body is the environment: each of its synchronous segments  *)
(* ends by awaiting a dependency lookup, by awaiting something external,   *)
(* by returning, by throwing or (flow) by calling $end.                    *)
(***************************************************************************)
EXTENDS Integers, Sequences, FiniteSets, TLC

\* ---------------------------------------------------------------- bounds
NumTasks == 2
MaxLookups == 2

\* ------------------------------------------------------------ vocabulary
AllNames == <<"a", "b", "c", "d">>
ProtoNames == {"toString"}
UnknownNames == {"zz"}
Modes == {"all", "settled", "flow"}
ExtReasons == {<<"ext", "reason">>, <<"ext", "falsy">>}
None == <<"none", "-">>
Undefined == <<"undefined", "-">>
ReturnValueRef == <<"returnValue", "-">>
AbortedError == <<"Aborted", "-">>
FlowAbortedError == <<"FlowAbortedError", "-">>
FlowEndError(t) == <<"FlowEndError", t>>
UnknownTaskError(d) == <<"Unknown task", d>>
NotAFunctionError(t) == <<"is not a function", t>>
TaskValue(t) == <<"value", t>>
TaskError(t) == <<"error", t>>

Pending == [st |-> "pending", val |-> None]
Fulfilled(v) == [st |-> "fulfilled", val |-> v]
Rejected(e) == [st |-> "rejected", val |-> e]

VARIABLES
  mode, debug, taskNames, phase, launched,
  results, errors, resolvers, returnValue,
  flowEnded, flowEndValue,
  internalSignal, cleanupAborted, listening, signal,
  pc, lookups, calls,
  promises, elemDone, combinator, finalPromise, returned,
  mq,
  taskStartTimes, taskDependencies, taskWaitPeriods, timings, printed

engineVars == <<results, errors, resolvers, returnValue, flowEnded, flowEndValue>>
signalVars == <<internalSignal, cleanupAborted, listening, signal>>
taskVars == <<pc, lookups, calls>>
promiseVars == <<promises, elemDone, combinator, finalPromise, returned>>
debugVars == <<taskStartTimes, taskDependencies, taskWaitPeriods, timings, printed>>
inputVars == <<mode, debug, taskNames>>
vars == <<inputVars, phase, launched, engineVars, signalVars, taskVars,
          promiseVars, mq, debugVars>>

\* ------------------------------------------------- insertion-ordered Map
SeqRange(s) == {s[i] : i \in 1..Len(s)}
MapKeys(m) == {m[i].k : i \in 1..Len(m)}
MapHas(m, k) == k \in MapKeys(m)
MapGet(m, k) == (CHOOSE i \in 1..Len(m) : m[i].k = k) \* index
MapVal(m, k) == m[MapGet(m, k)].v
MapSet(m, k, v) ==
  IF MapHas(m, k) THEN [m EXCEPT ![MapGet(m, k)] = [k |-> k, v |-> v]]
  ELSE Append(m, [k |-> k, v |-> v])

Tasks == SeqRange(taskNames)
handleSettled == mode = "settled"
flowMode == mode = "flow"
InTasks(d) == d \in Tasks \cup ProtoNames
LookupNames == Tasks \cup ProtoNames \cup UnknownNames
Job(type, t, d, st, v) == [type |-> type, task |-> t, dep |-> d, st |-> st, val |-> v]

\* ------------------------------------------------------------------ Init
\* The caller's inputs (the entry point, the options and a task set of at
\* most maxTasks entries) and the state executeTasksInternal starts in.
InitWith(maxTasks) ==
  /\ mode \in Modes
  /\ debug \in BOOLEAN
  /\ \E n \in 0..maxTasks : taskNames = SubSeq(AllNames, 1, n)
  /\ signal \in {[present |-> FALSE, aborted |-> FALSE, reason |-> None],
                 [present |-> TRUE, aborted |-> FALSE, reason |-> None]}
                \cup {[present |-> TRUE, aborted |-> TRUE, reason |-> r] : r \in ExtReasons}
  /\ phase = "init"
  /\ launched = 0
  /\ results = <<>>
  /\ errors = <<>>
  /\ resolvers = [d \in SeqRange(AllNames) \cup ProtoNames |-> <<>>]
  /\ returnValue = <<>>
  /\ flowEnded = FALSE
  /\ flowEndValue = Undefined
  /\ internalSignal = [aborted |-> FALSE, reason |-> None]
  /\ cleanupAborted = FALSE
  /\ listening = FALSE
  /\ pc = [t \in SeqRange(AllNames) |-> "idle"]
  /\ lookups = [t \in SeqRange(AllNames) |-> 0]
  /\ calls = [t \in SeqRange(AllNames) |-> 0]
  /\ promises = [t \in SeqRange(AllNames) |-> Pending]
  /\ elemDone = {}
  /\ combinator = Pending
  /\ finalPromise = Pending
  /\ returned = Pending
  /\ mq = <<>>
  /\ taskStartTimes = {}
  /\ taskDependencies = [t \in SeqRange(AllNames) |-> {}]
  /\ taskWaitPeriods = [t \in SeqRange(AllNames) |-> 0]
  /\ timings = <<>>
  /\ printed = 0

Init == InitWith(NumTasks)

\* AbortController.abort(reason): a no-op once the signal is aborted.
Abort(sig, reason) ==
  IF sig.aborted THEN sig ELSE [aborted |-> TRUE, reason |-> reason]

\* Mutant: the external signal is only listened to, never looked at.
SetupListenOnly ==
  /\ phase = "init"
  /\ phase' = "launch"
  /\ IF signal.present
       THEN /\ internalSignal' = internalSignal
            /\ listening' = TRUE
       ELSE UNCHANGED <<internalSignal, listening>>
  /\ UNCHANGED <<inputVars, launched, engineVars, cleanupAborted, signal, taskVars,
                 promiseVars, mq, debugVars>>

\* Lines 192-209: the controllers and the propagation of the external signal.
Setup ==
  /\ phase = "init"
  /\ phase' = "launch"
  /\ IF signal.present
       THEN IF signal.aborted
              THEN /\ internalSignal' = Abort(internalSignal, signal.reason)
                   /\ listening' = FALSE
              ELSE /\ internalSignal' = internalSignal
                   /\ listening' = TRUE
       ELSE UNCHANGED <<internalSignal, listening>>
  /\ UNCHANGED <<inputVars, launched, engineVars, cleanupAborted, signal, taskVars,
                 promiseVars, mq, debugVars>>

\* Mutant: the listener replaces the internal signal's reason even when the
\* internal signal is already aborted.
ExternalAbortOverwrites(r) ==
  /\ phase # "init"
  /\ signal.present /\ ~signal.aborted
  /\ signal' = [present |-> TRUE, aborted |-> TRUE, reason |-> r]
  /\ IF listening /\ ~cleanupAborted
       THEN internalSignal' = [aborted |-> TRUE, reason |-> r]
       ELSE internalSignal' = internalSignal
  /\ listening' = FALSE
  /\ UNCHANGED <<inputVars, phase, launched, engineVars, cleanupAborted, taskVars,
                 promiseVars, mq, debugVars>>

\* Mutant: aborting the external signal cuts every suspended task short.
ExternalAbortPreempts(r) ==
  /\ phase # "init"
  /\ signal.present /\ ~signal.aborted
  /\ signal' = [present |-> TRUE, aborted |-> TRUE, reason |-> r]
  /\ IF listening /\ ~cleanupAborted
       THEN internalSignal' = Abort(internalSignal, r)
       ELSE internalSignal' = internalSignal
  /\ listening' = FALSE
  /\ pc' = [t \in DOMAIN pc |-> IF pc[t] \in {"ext", "dep"} THEN "done" ELSE pc[t]]
  /\ UNCHANGED <<inputVars, phase, launched, engineVars, cleanupAborted, lookups, calls,
                 promiseVars, mq, debugVars>>

\* Mutant: aborting the external signal rejects every pending lookup with the
\* signal's reason.
ExternalAbortReleasesWaiters(r) ==
  LET waiting == SelectSeq(AllNames, LAMBDA t : t \in Tasks /\ pc[t] = "dep") IN
  /\ phase # "init"
  /\ signal.present /\ ~signal.aborted
  /\ signal' = [present |-> TRUE, aborted |-> TRUE, reason |-> r]
  /\ IF listening /\ ~cleanupAborted
       THEN internalSignal' = Abort(internalSignal, r)
       ELSE internalSignal' = internalSignal
  /\ listening' = FALSE
  /\ pc' = [t \in DOMAIN pc |-> IF pc[t] = "dep" THEN "notified" ELSE pc[t]]
  /\ mq' = mq \o [i \in 1..Len(waiting) |-> Job("resume", waiting[i], "-", "rejected", r)]
  /\ UNCHANGED <<inputVars, phase, launched, engineVars, cleanupAborted, lookups, calls,
                 promiseVars, debugVars>>

\* The caller (or anyone holding the external controller) aborts the external
\* signal; the listener of line 203-207 runs synchronously if still registered.
ExternalAbort(r) ==
  /\ phase # "init"
  /\ signal.present /\ ~signal.aborted
  /\ signal' = [present |-> TRUE, aborted |-> TRUE, reason |-> r]
  /\ IF listening /\ ~cleanupAborted
       THEN internalSignal' = Abort(internalSignal, r)
       ELSE internalSignal' = internalSignal
  /\ listening' = FALSE
  /\ UNCHANGED <<inputVars, phase, launched, engineVars, cleanupAborted, taskVars,
                 promiseVars, mq, debugVars>>

\* ------------------------------------------------------ dependency lookup
\* Mutant: the lookup reads the result map without checking that the
\* dependency has settled, handing out undefined at once.
waitForDepNoWait(taskName, depName) ==
  IF ~InTasks(depName)
    THEN [st |-> "rejected", val |-> UnknownTaskError(depName), track |-> FALSE, wrap |-> FALSE]
  ELSE IF flowMode /\ flowEnded
    THEN [st |-> "rejected", val |-> FlowAbortedError, track |-> FALSE, wrap |-> FALSE]
  ELSE IF MapHas(errors, depName)
    THEN [st |-> "rejected", val |-> MapVal(errors, depName), track |-> debug, wrap |-> debug]
  ELSE [st |-> "fulfilled",
        val |-> IF MapHas(results, depName) THEN MapVal(results, depName) ELSE Undefined,
        track |-> debug, wrap |-> debug]

\* Mutant: the recorded outcomes are consulted before the flow-ended check.
waitForDepOutcomeFirst(taskName, depName) ==
  IF ~InTasks(depName)
    THEN [st |-> "rejected", val |-> UnknownTaskError(depName), track |-> FALSE, wrap |-> FALSE]
  ELSE IF MapHas(results, depName)
    THEN [st |-> "fulfilled", val |-> MapVal(results, depName), track |-> debug, wrap |-> debug]
  ELSE IF MapHas(errors, depName)
    THEN [st |-> "rejected", val |-> MapVal(errors, depName), track |-> debug, wrap |-> debug]
  ELSE IF flowMode /\ flowEnded
    THEN [st |-> "rejected", val |-> FlowAbortedError, track |-> FALSE, wrap |-> FALSE]
  ELSE [st |-> "pending", val |-> None, track |-> debug, wrap |-> debug]

\* waitForDep(taskName, depName), lines 220-251: the promise the lookup hands
\* out (st = "pending" when a waiter has to be registered) and whether the
\* dependency is tracked for the debug report.
waitForDep(taskName, depName) ==
  IF ~InTasks(depName)
    THEN [st |-> "rejected", val |-> UnknownTaskError(depName), track |-> FALSE, wrap |-> FALSE]
  ELSE IF flowMode /\ flowEnded
    THEN [st |-> "rejected", val |-> FlowAbortedError, track |-> FALSE, wrap |-> FALSE]
  ELSE IF MapHas(results, depName)
    THEN [st |-> "fulfilled", val |-> MapVal(results, depName), track |-> debug, wrap |-> debug]
  ELSE IF MapHas(errors, depName)
    THEN [st |-> "rejected", val |-> MapVal(errors, depName), track |-> debug, wrap |-> debug]
  ELSE [st |-> "pending", val |-> None, track |-> debug, wrap |-> debug]

\* A waiter's promise is still pending while its task is suspended on it.
WaiterPending(w) == pc[w.by] = "dep" /\ lookups[w.by] = w.id

\* The loops of lines 290-294 and 302-306 walking the waiter list from its
\* end: the last waiter registered is notified first.
NotifyJobsLastFirst(name, st, v) ==
  LET live == SelectSeq(resolvers[name], WaiterPending)
  IN  [i \in 1..Len(live) |->
         Job(IF debug THEN "waitrec" ELSE "resume",
             live[Len(live) + 1 - i].by, name, st, v)]

\* The loops of lines 290-294 and 302-306: settle every waiter of `name`, in
\* registration order; each settled promise queues its reaction (the debug
\* wrapper of lines 254-278 when debug is on, the task's continuation else).
NotifyJobs(name, st, v) ==
  LET live == SelectSeq(resolvers[name], WaiterPending)
  IN  [i \in 1..Len(live) |->
         Job(IF debug THEN "waitrec" ELSE "resume", live[i].by, name, st, v)]

NotifiedTasks(name) ==
  {w.by : w \in {x \in SeqRange(resolvers[name]) : WaiterPending(x)}}

\* ------------------------------------------------------ a task's segment
RECURSIVE SumOver(_, _)
SumOver(f, S) ==
  IF S = {} THEN 0
  ELSE LET x == CHOOSE y \in S : TRUE IN f[x] + SumOver(f, S \ {x})

\* The dependency lookups issued so far in this invocation.
TotalLookups == SumOver(lookups, DOMAIN lookups)

\* What a task's body may do at the end of one synchronous segment.
\* `delivered` is the outcome of the lookup it resumed from (Pending if none).
Endings(t, delivered) ==
  (IF TotalLookups < MaxLookups
     THEN {[op |-> "lookup", dep |-> d, val |-> None] : d \in LookupNames}
     ELSE {})
  \cup {[op |-> "yield", dep |-> "-", val |-> None]}
  \cup {[op |-> "return", dep |-> "-", val |-> TaskValue(t)]}
  \cup {[op |-> "throw", dep |-> "-", val |-> TaskError(t)]}
  \cup (IF delivered.st = "rejected"
          THEN {[op |-> "throw", dep |-> "-", val |-> delivered.val]} ELSE {})
  \cup (IF flowMode THEN {[op |-> "end", dep |-> "-", val |-> TaskValue(t)]} ELSE {})

\* Mutant: every termination request overwrites the recorded value.
EndFlowLastWins(value) ==
  /\ flowEnded' = TRUE
  /\ flowEndValue' = value

\* $end(value), lines 331-337: the state update; the FlowEndError it throws
\* is the segment's conclusion.
EndFlow(value) ==
  IF ~flowEnded
    THEN /\ flowEnded' = TRUE
         /\ flowEndValue' = value
    ELSE UNCHANGED <<flowEnded, flowEndValue>>

\* One segment of task t's body ending with e; q is the microtask queue the
\* segment's own reactions are appended to.
DoSegment(t, e, q) ==
  CASE e.op = "lookup" ->
         LET w == waitForDep(t, e.dep) IN
         /\ lookups' = [lookups EXCEPT ![t] = @ + 1]
         /\ taskDependencies' =
              IF w.track THEN [taskDependencies EXCEPT ![t] = @ \cup {e.dep}]
              ELSE taskDependencies
         /\ IF w.st = "pending"
              THEN /\ resolvers' = [resolvers EXCEPT ![e.dep] =
                                      Append(@, [by |-> t, id |-> lookups[t] + 1])]
                   /\ mq' = q
                   /\ pc' = [pc EXCEPT ![t] = "dep"]
              ELSE /\ resolvers' = resolvers
                   /\ mq' = Append(q, Job(IF w.wrap THEN "waitrec" ELSE "resume",
                                          t, e.dep, w.st, w.val))
                   /\ pc' = [pc EXCEPT ![t] = "notified"]
         /\ UNCHANGED <<flowEnded, flowEndValue>>
    [] e.op = "yield" ->
         /\ pc' = [pc EXCEPT ![t] = "ext"]
         /\ mq' = q
         /\ UNCHANGED <<lookups, taskDependencies, resolvers, flowEnded, flowEndValue>>
    [] e.op = "return" ->
         /\ pc' = [pc EXCEPT ![t] = "concluding"]
         /\ mq' = Append(q, Job("settle", t, "-", "fulfilled", e.val))
         /\ UNCHANGED <<lookups, taskDependencies, resolvers, flowEnded, flowEndValue>>
    [] e.op = "throw" ->
         /\ pc' = [pc EXCEPT ![t] = "concluding"]
         /\ mq' = Append(q, Job("settle", t, "-", "rejected", e.val))
         /\ UNCHANGED <<lookups, taskDependencies, resolvers, flowEnded, flowEndValue>>
    [] e.op = "end" ->
         /\ EndFlow(e.val)
         /\ pc' = [pc EXCEPT ![t] = "concluding"]
         /\ mq' = Append(q, Job("settle", t, "-", "rejected", FlowEndError(t)))
         /\ UNCHANGED <<lookups, taskDependencies, resolvers>>

\* ------------------------------------------------------ outcome recording
\* Mutant: the result slot is written only in settled mode.
handleResultNoSlot(name, value) ==
  [results |-> MapSet(results, name, value),
   errors |-> errors,
   returnValue |->
     IF handleSettled
       THEN MapSet(returnValue, name, [status |-> "fulfilled", value |-> value])
     ELSE returnValue,
   jobs |-> NotifyJobs(name, "fulfilled", value),
   woken |-> NotifiedTasks(name)]

\* handleResult, lines 283-295: the maps after the call and the reactions of
\* the released waiters.
handleResult(name, value) ==
  [results |-> MapSet(results, name, value),
   errors |-> errors,
   returnValue |->
     IF handleSettled
       THEN MapSet(returnValue, name, [status |-> "fulfilled", value |-> value])
     ELSE IF ~flowMode THEN MapSet(returnValue, name, value)
     ELSE returnValue,
   jobs |-> NotifyJobs(name, "fulfilled", value),
   woken |-> NotifiedTasks(name)]

\* Mutant: a failed task gets no slot in the settled result.
handleErrorNoSlot(name, err) ==
  [results |-> results,
   errors |-> MapSet(errors, name, err),
   returnValue |-> returnValue,
   jobs |-> NotifyJobs(name, "rejected", err),
   woken |-> NotifiedTasks(name)]

\* Mutant: the waiters are rejected with a new error wrapping the task's.
handleErrorWrapped(name, err) ==
  [results |-> results,
   errors |-> MapSet(errors, name, err),
   returnValue |->
     IF handleSettled
       THEN MapSet(returnValue, name, [status |-> "rejected", reason |-> err])
     ELSE returnValue,
   jobs |-> NotifyJobs(name, "rejected", <<"wrapped", name>>),
   woken |-> NotifiedTasks(name)]

\* Mutant: the failure is also recorded, eagerly, for every waiting dependent.
handleErrorEager(name, err) ==
  LET live == SelectSeq(resolvers[name], WaiterPending) IN
  [results |-> results,
   errors |-> MapSet(errors, name, err)
                \o [i \in 1..Len(live) |-> [k |-> live[i].by, v |-> err]],
   returnValue |->
     IF handleSettled
       THEN MapSet(returnValue, name, [status |-> "rejected", reason |-> err])
     ELSE returnValue,
   jobs |-> NotifyJobs(name, "rejected", err),
   woken |-> NotifiedTasks(name)]

\* Mutant: the failure is recorded but the waiters are left alone.
handleErrorNoNotify(name, err) ==
  [results |-> results,
   errors |-> MapSet(errors, name, err),
   returnValue |->
     IF handleSettled
       THEN MapSet(returnValue, name, [status |-> "rejected", reason |-> err])
     ELSE returnValue,
   jobs |-> <<>>,
   woken |-> {}]

\* Mutant: a failure is also reported, at once, for every task waiting on it.
handleErrorTaintsDependents(name, err) ==
  LET live == SelectSeq(resolvers[name], WaiterPending)
      own == IF handleSettled
               THEN MapSet(returnValue, name, [status |-> "rejected", reason |-> err])
               ELSE returnValue
  IN
  [results |-> results,
   errors |-> MapSet(errors, name, err),
   returnValue |->
     IF handleSettled /\ live # <<>>
       THEN MapSet(own, live[1].by, [status |-> "rejected", reason |-> err])
     ELSE own,
   jobs |-> NotifyJobs(name, "rejected", err),
   woken |-> NotifiedTasks(name)]

\* handleError, lines 297-307.
handleError(name, err) ==
  [results |-> results,
   errors |-> MapSet(errors, name, err),
   returnValue |->
     IF handleSettled
       THEN MapSet(returnValue, name, [status |-> "rejected", reason |-> err])
     ELSE returnValue,
   jobs |-> NotifyJobs(name, "rejected", err),
   woken |-> NotifiedTasks(name)]

NoHandle ==
  [results |-> results, errors |-> errors, returnValue |-> returnValue,
   jobs |-> <<>>, woken |-> {}]

\* Lines 369-378: the two instanceof checks of the wrapper's catch.
IsFlowMarker(err) == err[1] \in {"FlowEndError", "FlowAbortedError"}

\* Mutant: the catch treats the flow markers like any other error.
CompletionNoMarkers(name, ok, val) ==
  IF ok
    THEN [h |-> handleResult(name, val), signal |-> internalSignal,
          promise |-> Fulfilled(Undefined), timing |-> <<"fulfilled">>]
  ELSE [h |-> handleError(name, val),
        signal |-> IF ~handleSettled THEN Abort(internalSignal, val) ELSE internalSignal,
        promise |-> IF ~handleSettled THEN Rejected(val) ELSE Fulfilled(Undefined),
        timing |-> <<"rejected">>]

\* Mutant: the internal controller is aborted when a task settles, whatever
\* its outcome.
CompletionAbortOnSettle(name, ok, val) ==
  IF ok
    THEN [h |-> handleResult(name, val), signal |-> Abort(internalSignal, val),
          promise |-> Fulfilled(Undefined), timing |-> <<"fulfilled">>]
  ELSE IF flowMode /\ IsFlowMarker(val)
    THEN [h |-> NoHandle, signal |-> internalSignal,
          promise |-> Fulfilled(Undefined), timing |-> <<>>]
  ELSE [h |-> handleError(name, val),
        signal |-> IF ~handleSettled THEN Abort(internalSignal, val) ELSE internalSignal,
        promise |-> IF ~handleSettled THEN Rejected(val) ELSE Fulfilled(Undefined),
        timing |-> <<"rejected">>]

\* Mutant: a failure never aborts the internal controller.
CompletionNoAbort(name, ok, val) ==
  IF ok
    THEN [h |-> handleResult(name, val), signal |-> internalSignal,
          promise |-> Fulfilled(Undefined), timing |-> <<"fulfilled">>]
  ELSE IF flowMode /\ IsFlowMarker(val)
    THEN [h |-> NoHandle, signal |-> internalSignal,
          promise |-> Fulfilled(Undefined), timing |-> <<>>]
  ELSE [h |-> handleError(name, val),
        signal |-> internalSignal,
        promise |-> IF ~handleSettled THEN Rejected(val) ELSE Fulfilled(Undefined),
        timing |-> <<"rejected">>]

\* Mutant: a failure aborts the internal controller in every mode.
CompletionAlwaysAbort(name, ok, val) ==
  IF ok
    THEN [h |-> handleResult(name, val), signal |-> internalSignal,
          promise |-> Fulfilled(Undefined), timing |-> <<"fulfilled">>]
  ELSE IF flowMode /\ IsFlowMarker(val)
    THEN [h |-> NoHandle, signal |-> internalSignal,
          promise |-> Fulfilled(Undefined), timing |-> <<>>]
  ELSE [h |-> handleError(name, val),
        signal |-> Abort(internalSignal, val),
        promise |-> IF ~handleSettled THEN Rejected(val) ELSE Fulfilled(Undefined),
        timing |-> <<"rejected">>]

\* Mutant: a failing task replaces the cause of a signal that is already
\* aborted.
CompletionOverwritesCause(name, ok, val) ==
  IF ok
    THEN [h |-> handleResult(name, val), signal |-> internalSignal,
          promise |-> Fulfilled(Undefined), timing |-> <<"fulfilled">>]
  ELSE IF flowMode /\ IsFlowMarker(val)
    THEN [h |-> NoHandle, signal |-> internalSignal,
          promise |-> Fulfilled(Undefined), timing |-> <<>>]
  ELSE [h |-> handleError(name, val),
        signal |-> IF ~handleSettled THEN [aborted |-> TRUE, reason |-> val]
                   ELSE internalSignal,
        promise |-> IF ~handleSettled THEN Rejected(val) ELSE Fulfilled(Undefined),
        timing |-> <<"rejected">>]

\* Mutant: a failing task that has waiters notifies them and leaves the
\* internal signal alone.
CompletionNotifiesOnly(name, ok, val) ==
  IF ok
    THEN [h |-> handleResult(name, val), signal |-> internalSignal,
          promise |-> Fulfilled(Undefined), timing |-> <<"fulfilled">>]
  ELSE IF flowMode /\ IsFlowMarker(val)
    THEN [h |-> NoHandle, signal |-> internalSignal,
          promise |-> Fulfilled(Undefined), timing |-> <<>>]
  ELSE [h |-> handleError(name, val),
        signal |-> IF ~handleSettled /\ NotifiedTasks(name) = {}
                     THEN Abort(internalSignal, val) ELSE internalSignal,
        promise |-> IF ~handleSettled THEN Rejected(val) ELSE Fulfilled(Undefined),
        timing |-> <<"rejected">>]

\* Mutant: a task cut short by a flow marker aborts the internal signal like a
\* failing task.
CompletionAbortsOnMarker(name, ok, val) ==
  IF ok
    THEN [h |-> handleResult(name, val), signal |-> internalSignal,
          promise |-> Fulfilled(Undefined), timing |-> <<"fulfilled">>]
  ELSE IF flowMode /\ IsFlowMarker(val)
    THEN [h |-> NoHandle, signal |-> Abort(internalSignal, val),
          promise |-> Fulfilled(Undefined), timing |-> <<>>]
  ELSE [h |-> handleError(name, val),
        signal |-> IF ~handleSettled THEN Abort(internalSignal, val) ELSE internalSignal,
        promise |-> IF ~handleSettled THEN Rejected(val) ELSE Fulfilled(Undefined),
        timing |-> <<"rejected">>]

\* Lines 349-401: what the wrapper of task `name` does once the outcome of the
\* task's body is known (ok: the awaited call fulfilled with val; otherwise it
\* threw or rejected with val).
Completion(name, ok, val) ==
  IF ok
    THEN [h |-> handleResult(name, val), signal |-> internalSignal,
          promise |-> Fulfilled(Undefined), timing |-> <<"fulfilled">>]
  ELSE IF flowMode /\ IsFlowMarker(val)
    THEN [h |-> NoHandle, signal |-> internalSignal,
          promise |-> Fulfilled(Undefined), timing |-> <<>>]
  ELSE [h |-> handleError(name, val),
        signal |-> IF ~handleSettled THEN Abort(internalSignal, val) ELSE internalSignal,
        promise |-> IF ~handleSettled THEN Rejected(val) ELSE Fulfilled(Undefined),
        timing |-> <<"rejected">>]

\* The wrapper of task t concludes; q is the queue its reactions go to and
\* starts the start-time table at that moment.
Conclude(t, ok, val, q, starts) ==
  LET c == Completion(t, ok, val) IN
  /\ results' = c.h.results
  /\ errors' = c.h.errors
  /\ returnValue' = c.h.returnValue
  /\ internalSignal' = c.signal
  /\ promises' = [promises EXCEPT ![t] = c.promise]
  /\ pc' = [x \in DOMAIN pc |->
              IF x = t THEN "done" ELSE IF x \in c.h.woken THEN "notified" ELSE pc[x]]
  /\ timings' =
       IF debug
         THEN timings \o [i \in 1..Len(c.timing) |->
                [name |-> t, status |-> c.timing[i], hasStart |-> t \in starts]]
         ELSE timings
  /\ mq' = q \o c.h.jobs
             \o (IF phase = "run"
                   THEN <<Job("elem", t, "-", c.promise.st, c.promise.val)>>
                   ELSE <<>>)

\* ---------------------------------------------------------------- launch
LaunchEndings(t) ==
  {[op |-> "notfn", dep |-> "-", val |-> NotAFunctionError(t)],
   [op |-> "throwSync", dep |-> "-", val |-> TaskError(t)]}
  \cup Endings(t, Pending)

\* Mutant: the entry is called before it is checked to be callable.
InvocationsBeforeCheck(e) == 1

\* Lines 312-315 and 349: the callable is invoked once, after the typeof check.
Invocations(e) == IF e.op = "notfn" THEN 0 ELSE 1

\* Mutant: the next entry is started only once the reactions queued so far
\* have run.
NextLaunchEndingsSerial ==
  IF phase = "launch" /\ launched < Len(taskNames) /\ mq = <<>>
    THEN LaunchEndings(taskNames[launched + 1]) ELSE {}

NextLaunchEndings ==
  IF phase = "launch" /\ launched < Len(taskNames)
    THEN LaunchEndings(taskNames[launched + 1]) ELSE {}

\* Lines 310-349: the map callback for the next task name, up to the first
\* suspension of the wrapper.  A task function that is not async may throw
\* inside the call itself, which lands in the catch at once.
Launch(e) ==
  LET t == taskNames[launched + 1] IN
  /\ phase = "launch"
  /\ launched < Len(taskNames)
  /\ e \in NextLaunchEndings
  /\ launched' = launched + 1
  /\ calls' = [calls EXCEPT ![t] = @ + Invocations(e)]
  /\ taskStartTimes' =
       IF debug /\ e.op # "notfn" THEN taskStartTimes \cup {t} ELSE taskStartTimes
  /\ CASE e.op \in {"notfn", "throwSync"} ->
            /\ Conclude(t, FALSE, e.val, mq, taskStartTimes')
            /\ UNCHANGED <<lookups, taskDependencies, resolvers, flowEnded, flowEndValue>>
       [] OTHER ->
            /\ DoSegment(t, e, mq)
            /\ UNCHANGED <<results, errors, returnValue, internalSignal, promises, timings>>
  /\ UNCHANGED <<inputVars, phase, cleanupAborted, listening, signal,
                 elemDone, combinator, finalPromise, returned,
                 taskWaitPeriods, printed>>

\* Mutant: the combinator settles only in reaction to a settled element, so
\* an empty array leaves it pending.
SubscribeNoEmptyCase ==
  /\ phase = "launch"
  /\ launched = Len(taskNames)
  /\ phase' = "run"
  /\ LET settled == SelectSeq(taskNames, LAMBDA t : promises[t].st # "pending")
         jobs == [i \in 1..Len(settled) |->
                    Job("elem", settled[i], "-", promises[settled[i]].st,
                        promises[settled[i]].val)]
     IN /\ combinator' = combinator
        /\ mq' = mq \o jobs
  /\ UNCHANGED <<inputVars, launched, engineVars, signalVars, taskVars,
                 promises, elemDone, finalPromise, returned, debugVars>>

\* Promise.all(promises) / Promise.allSettled(promises), lines 404-433, called
\* once every wrapper has been started: promises settled during the launch
\* queue their reactions now, in array order.
Subscribe ==
  /\ phase = "launch"
  /\ launched = Len(taskNames)
  /\ phase' = "run"
  /\ LET settled == SelectSeq(taskNames, LAMBDA t : promises[t].st # "pending")
         jobs == [i \in 1..Len(settled) |->
                    Job("elem", settled[i], "-", promises[settled[i]].st,
                        promises[settled[i]].val)]
     IN IF Len(taskNames) = 0
          THEN /\ combinator' = Fulfilled(Undefined)
               /\ mq' = Append(mq, Job("thenFinal", "-", "-", "fulfilled", Undefined))
          ELSE /\ combinator' = combinator
               /\ mq' = mq \o jobs
  /\ UNCHANGED <<inputVars, launched, engineVars, signalVars, taskVars,
                 promises, elemDone, finalPromise, returned, debugVars>>

\* ------------------------------------------------------- microtask jobs
Head1 == IF mq = <<>> THEN Job("none", "-", "-", "pending", None) ELSE Head(mq)

\* The reaction of the debug wrapper, lines 254-278: record the wait period
\* and pass the outcome on to the awaiting task.
WaitRecJob ==
  /\ phase = "run"
  /\ Head1.type = "waitrec"
  /\ taskWaitPeriods' = [taskWaitPeriods EXCEPT ![Head1.task] = @ + 1]
  /\ mq' = Append(Tail(mq), [Head1 EXCEPT !.type = "resume"])
  /\ UNCHANGED <<inputVars, phase, launched, engineVars, signalVars, taskVars,
                 promiseVars, taskStartTimes, taskDependencies, timings, printed>>

ResumeEndings ==
  IF Head1.type = "resume"
    THEN Endings(Head1.task, [st |-> Head1.st, val |-> Head1.val]) ELSE {}

\* A task resumes from `await this.$.dep` with the lookup's outcome and runs
\* its next segment.
ResumeJob(e) ==
  /\ phase = "run"
  /\ Head1.type = "resume"
  /\ e \in ResumeEndings
  /\ DoSegment(Head1.task, e, Tail(mq))
  /\ UNCHANGED <<inputVars, phase, launched, results, errors, returnValue,
                 signalVars, calls, promiseVars,
                 taskStartTimes, taskWaitPeriods, timings, printed>>

\* A task suspended on something of its own (a timer, I/O) resumes.
ExternalResume(t, e) ==
  /\ phase = "run"
  /\ t \in Tasks
  /\ pc[t] = "ext"
  /\ e \in Endings(t, Pending)
  /\ e.op # "yield"
  /\ DoSegment(t, e, mq)
  /\ UNCHANGED <<inputVars, phase, launched, results, errors, returnValue,
                 signalVars, calls, promiseVars,
                 taskStartTimes, taskWaitPeriods, timings, printed>>

\* Mutant: a wrapper resumes only while no sibling is suspended on a lookup.
SettleJobAfterWaiters ==
  /\ phase = "run"
  /\ Head1.type = "settle"
  /\ \A t \in Tasks : pc[t] # "dep"
  /\ Conclude(Head1.task, Head1.st = "fulfilled", Head1.val, Tail(mq), taskStartTimes)
  /\ UNCHANGED <<inputVars, phase, launched, resolvers, flowEnded, flowEndValue,
                 cleanupAborted, listening, signal, lookups, calls,
                 elemDone, combinator, finalPromise, returned,
                 taskStartTimes, taskDependencies, taskWaitPeriods, printed>>

\* Mutant: a failing task's wrapper aborts the caller's signal too.
SettleJobAbortsCaller ==
  /\ phase = "run"
  /\ Head1.type = "settle"
  /\ Conclude(Head1.task, Head1.st = "fulfilled", Head1.val, Tail(mq), taskStartTimes)
  /\ signal' = IF signal.present /\ errors' # errors
                 THEN [present |-> TRUE, aborted |-> TRUE, reason |-> Head1.val]
                 ELSE signal
  /\ UNCHANGED <<inputVars, phase, launched, resolvers, flowEnded, flowEndValue,
                 cleanupAborted, listening, lookups, calls,
                 elemDone, combinator, finalPromise, returned,
                 taskStartTimes, taskDependencies, taskWaitPeriods, printed>>

\* The wrapper resumes from `await taskFn.call(context)`, line 349.
SettleJob ==
  /\ phase = "run"
  /\ Head1.type = "settle"
  /\ Conclude(Head1.task, Head1.st = "fulfilled", Head1.val, Tail(mq), taskStartTimes)
  /\ UNCHANGED <<inputVars, phase, launched, resolvers, flowEnded, flowEndValue,
                 cleanupAborted, listening, signal, lookups, calls,
                 elemDone, combinator, finalPromise, returned,
                 taskStartTimes, taskDependencies, taskWaitPeriods, printed>>

\* Mutant: Promise.all is used in every mode.
CombinatorAfterAll(t, st, val) ==
  IF combinator.st # "pending" THEN combinator
  ELSE IF st = "rejected" THEN Rejected(val)
  ELSE IF elemDone \cup {t} = Tasks THEN Fulfilled(Undefined)
  ELSE combinator

\* The combinator's reaction to one settled wrapper promise: Promise.all
\* rejects on the first rejection it is told of and fulfils when all elements
\* fulfilled; Promise.allSettled fulfils when all elements settled.
CombinatorAfter(t, st, val) ==
  IF combinator.st # "pending" THEN combinator
  ELSE IF mode = "all" /\ st = "rejected" THEN Rejected(val)
  ELSE IF elemDone \cup {t} = Tasks THEN Fulfilled(Undefined)
  ELSE combinator

ElemJob ==
  /\ phase = "run"
  /\ Head1.type = "elem"
  /\ elemDone' = elemDone \cup {Head1.task}
  /\ combinator' = CombinatorAfter(Head1.task, Head1.st, Head1.val)
  /\ mq' = IF combinator.st = "pending" /\ combinator'.st # "pending"
             THEN Append(Tail(mq), Job("thenFinal", "-", "-", combinator'.st, combinator'.val))
             ELSE Tail(mq)
  /\ UNCHANGED <<inputVars, phase, launched, engineVars, signalVars, taskVars,
                 promises, finalPromise, returned, debugVars>>

Truthy(reason) == reason # <<"ext", "falsy">> /\ reason # None

\* Mutant: the flow branch forgets the value of the termination request.
FlowOutcomeIgnoresEnd ==
  LET rejected == SelectSeq(taskNames, LAMBDA t : promises[t].st = "rejected") IN
  IF signal.present /\ signal.aborted
    THEN Rejected(IF Truthy(signal.reason) THEN signal.reason ELSE AbortedError)
  ELSE IF rejected # <<>> THEN Rejected(promises[rejected[1]].val)
  ELSE Fulfilled(Undefined)

\* Mutant: a recorded termination request is honoured before the rejected
\* results are looked at.
FlowOutcomeEndFirst ==
  LET rejected == SelectSeq(taskNames, LAMBDA t : promises[t].st = "rejected") IN
  IF signal.present /\ signal.aborted
    THEN Rejected(IF Truthy(signal.reason) THEN signal.reason ELSE AbortedError)
  ELSE IF flowEnded THEN Fulfilled(flowEndValue)
  ELSE IF rejected # <<>> THEN Rejected(promises[rejected[1]].val)
  ELSE Fulfilled(Undefined)

\* Mutant: the flow branch rejects with the error that was recorded first in
\* time.
FlowOutcomeFirstInTime ==
  LET rejected == SelectSeq(taskNames, LAMBDA t : promises[t].st = "rejected") IN
  IF signal.present /\ signal.aborted
    THEN Rejected(IF Truthy(signal.reason) THEN signal.reason ELSE AbortedError)
  ELSE IF rejected # <<>> THEN Rejected(errors[1].v)
  ELSE IF flowEnded THEN Fulfilled(flowEndValue)
  ELSE Fulfilled(Undefined)

\* Mutant: the flow branch looks at the rejected results before it looks at
\* the external signal.
FlowOutcomeErrorsFirst ==
  LET rejected == SelectSeq(taskNames, LAMBDA t : promises[t].st = "rejected") IN
  IF rejected # <<>> THEN Rejected(promises[rejected[1]].val)
  ELSE IF signal.present /\ signal.aborted
    THEN Rejected(IF Truthy(signal.reason) THEN signal.reason ELSE AbortedError)
  ELSE IF flowEnded THEN Fulfilled(flowEndValue)
  ELSE Fulfilled(Undefined)

\* The flow branch's then-callback, lines 406-428.
FlowOutcome ==
  LET rejected == SelectSeq(taskNames, LAMBDA t : promises[t].st = "rejected") IN
  IF signal.present /\ signal.aborted
    THEN Rejected(IF Truthy(signal.reason) THEN signal.reason ELSE AbortedError)
  ELSE IF rejected # <<>> THEN Rejected(promises[rejected[1]].val)
  ELSE IF flowEnded THEN Fulfilled(flowEndValue)
  ELSE Fulfilled(Undefined)

\* Mutant: the rejection reason is looked up in task-set order, as the flow
\* branch does.
FinalOutcomeTaskOrder(st, val) ==
  LET rejected == SelectSeq(taskNames, LAMBDA t : promises[t].st = "rejected") IN
  IF flowMode THEN FlowOutcome
  ELSE IF st = "fulfilled" THEN Fulfilled(ReturnValueRef)
  ELSE Rejected(promises[rejected[1]].val)

\* finalPromise, lines 404-433: the reaction to the combinator's settlement.
FinalOutcome(st, val) ==
  IF flowMode THEN FlowOutcome
  ELSE IF st = "fulfilled" THEN Fulfilled(ReturnValueRef)
  ELSE Rejected(val)

ThenFinalJob ==
  /\ phase = "run"
  /\ Head1.type = "thenFinal"
  /\ finalPromise' = FinalOutcome(Head1.st, Head1.val)
  /\ IF flowMode
       THEN /\ cleanupAborted' = TRUE
            /\ listening' = FALSE
            /\ IF debug
                 THEN /\ mq' = Append(Tail(mq), Job("debugThen", "-", "-", "pending", None))
                      /\ returned' = returned
                 ELSE /\ mq' = Tail(mq)
                      /\ returned' = finalPromise'
       ELSE /\ mq' = Append(Tail(mq), Job("finally", "-", "-", "pending", None))
            /\ UNCHANGED <<cleanupAborted, listening, returned>>
  /\ UNCHANGED <<inputVars, phase, launched, engineVars, internalSignal, signal,
                 taskVars, promises, elemDone, combinator, debugVars>>

\* Mutant: withCleanup passes the outcome on without releasing the listener.
FinallyJobKeepsListener ==
  /\ phase = "run"
  /\ Head1.type = "finally"
  /\ IF debug
       THEN /\ mq' = Append(Tail(mq), Job("debugThen", "-", "-", "pending", None))
            /\ returned' = returned
       ELSE /\ mq' = Tail(mq)
            /\ returned' = finalPromise
  /\ UNCHANGED <<inputVars, phase, launched, engineVars, signalVars,
                 taskVars, promises, elemDone, combinator, finalPromise, debugVars>>

\* withCleanup, lines 436-440.
FinallyJob ==
  /\ phase = "run"
  /\ Head1.type = "finally"
  /\ cleanupAborted' = TRUE
  /\ listening' = FALSE
  /\ IF debug
       THEN /\ mq' = Append(Tail(mq), Job("debugThen", "-", "-", "pending", None))
            /\ returned' = returned
       ELSE /\ mq' = Tail(mq)
            /\ returned' = finalPromise
  /\ UNCHANGED <<inputVars, phase, launched, engineVars, internalSignal, signal,
                 taskVars, promises, elemDone, combinator, finalPromise, debugVars>>

\* Mutant: the chart is printed by the fulfilment handler only.
DebugThenJobOnSuccess ==
  /\ phase = "run"
  /\ Head1.type = "debugThen"
  /\ printed' = IF finalPromise.st = "fulfilled" THEN printed + 1 ELSE printed
  /\ returned' = finalPromise
  /\ mq' = Tail(mq)
  /\ UNCHANGED <<inputVars, phase, launched, engineVars, signalVars, taskVars,
                 promises, elemDone, combinator, finalPromise,
                 taskStartTimes, taskDependencies, taskWaitPeriods, timings>>

\* The debug then-handlers, lines 443-453: print the chart, pass the outcome on.
DebugThenJob ==
  /\ phase = "run"
  /\ Head1.type = "debugThen"
  /\ printed' = printed + 1
  /\ returned' = finalPromise
  /\ mq' = Tail(mq)
  /\ UNCHANGED <<inputVars, phase, launched, engineVars, signalVars, taskVars,
                 promises, elemDone, combinator, finalPromise,
                 taskStartTimes, taskDependencies, taskWaitPeriods, timings>>

\* ------------------------------------------------------- specifications
NextCore ==
  \/ Setup
  \/ \E e \in NextLaunchEndings : Launch(e)
  \/ Subscribe
  \/ \E e \in ResumeEndings : ResumeJob(e)
  \/ \E t \in Tasks : \E e \in Endings(t, Pending) : ExternalResume(t, e)
  \/ SettleJob
  \/ ElemJob
  \/ ThenFinalJob
  \/ FinallyJob

NextDebug ==
  \/ NextCore
  \/ WaitRecJob
  \/ DebugThenJob

NextSignal ==
  \/ NextCore
  \/ \E r \in ExtReasons : ExternalAbort(r)

Next ==
  \/ NextCore
  \/ WaitRecJob
  \/ DebugThenJob
  \/ \E r \in ExtReasons : ExternalAbort(r)

\* Every entry point, every option.
Spec == Init /\ [][Next]_vars

\* The three entry points, no external signal, debug off.
InitCore == Init /\ ~signal.present /\ debug = FALSE
SpecCore == InitCore /\ [][NextCore]_vars

\* The three entry points, no external signal, debug on.
InitDebug == Init /\ ~signal.present /\ debug = TRUE
SpecDebug == InitDebug /\ [][NextDebug]_vars

\* all(), with or without an external signal.
InitAll == Init /\ mode = "all" /\ debug = FALSE
SpecAll == InitAll /\ [][NextSignal]_vars

\* allSettled(), with or without an external signal.
InitSettled == Init /\ mode = "settled" /\ debug = FALSE
SpecSettled == InitSettled /\ [][NextSignal]_vars

\* flow(): its branch of finalPromise does the clean-up itself, so withCleanup
\* adds no reaction of its own.
NextFlow ==
  \/ Setup
  \/ \E e \in NextLaunchEndings : Launch(e)
  \/ Subscribe
  \/ \E e \in ResumeEndings : ResumeJob(e)
  \/ \E t \in Tasks : \E e \in Endings(t, Pending) : ExternalResume(t, e)
  \/ SettleJob
  \/ ElemJob
  \/ ThenFinalJob

NextFlowSignal ==
  \/ NextFlow
  \/ \E r \in ExtReasons : ExternalAbort(r)

\* flow(), no external signal, debug off.
InitFlow == Init /\ mode = "flow" /\ debug = FALSE /\ ~signal.present
SpecFlow == InitFlow /\ [][NextFlow]_vars

\* flow(), with or without an external signal.
InitFlowSignal == Init /\ mode = "flow" /\ debug = FALSE
SpecFlowSignal == InitFlowSignal /\ [][NextFlowSignal]_vars

\* The three entry points called with an external signal that is already
\* aborted.
InitAborted == Init /\ signal.present /\ signal.aborted /\ debug = FALSE
SpecAborted == InitAborted /\ [][NextCore]_vars

\* The three entry points called with an external signal that is not aborted
\* yet and may be aborted, with an Error as reason, at any moment.
NextLive ==
  \/ NextCore
  \/ ExternalAbort(<<"ext", "reason">>)

InitLive == Init /\ signal.present /\ ~signal.aborted /\ debug = FALSE
SpecLive == InitLive /\ [][NextLive]_vars

\* flow() over a task set one entry larger, with tasks whose only suspensions
\* are dependency lookups; no external signal, debug off.
NextFlowLookups ==
  \/ Setup
  \/ \E e \in NextLaunchEndings : e.op # "yield" /\ Launch(e)
  \/ Subscribe
  \/ \E e \in ResumeEndings : e.op # "yield" /\ ResumeJob(e)
  \/ SettleJob
  \/ ElemJob
  \/ ThenFinalJob

InitFlowLookups ==
  InitWith(NumTasks + 1) /\ mode = "flow" /\ debug = FALSE /\ ~signal.present
SpecFlowLookups == InitFlowLookups /\ [][NextFlowLookups]_vars

\* The three entry points with debug on or off, no external signal.
InitReport == Init /\ ~signal.present
SpecReport == InitReport /\ [][NextDebug]_vars

\* The steps the JavaScript engine takes by itself: the synchronous call runs
\* to its end, then the queued reactions run one after the other.
EngineStep ==
  \/ Setup
  \/ \E e \in NextLaunchEndings : Launch(e)
  \/ Subscribe
  \/ \E e \in ResumeEndings : ResumeJob(e)
  \/ SettleJob
  \/ ElemJob
  \/ ThenFinalJob
  \/ FinallyJob

\* The three entry points over a task set one entry larger, with tasks whose
\* only suspensions are dependency lookups; no external signal, debug off.
NextLookups ==
  \/ Setup
  \/ \E e \in NextLaunchEndings : e.op # "yield" /\ Launch(e)
  \/ Subscribe
  \/ \E e \in ResumeEndings : e.op # "yield" /\ ResumeJob(e)
  \/ SettleJob
  \/ ElemJob
  \/ ThenFinalJob
  \/ FinallyJob

InitLookups == InitWith(NumTasks + 1) /\ ~signal.present /\ debug = FALSE
SpecLookups == InitLookups /\ [][NextLookups]_vars

\* ---------------------------------------------------------------- claims
Launched(t) == \E i \in 1..launched : taskNames[i] = t
NotCallable(t) == MapHas(errors, t) /\ MapVal(errors, t) = NotAFunctionError(t)
Settled(t) == MapHas(results, t) \/ MapHas(errors, t)
Deliveries == {j \in SeqRange(mq) : j.type \in {"resume", "waitrec"}}
Registered(t, d) == \E i \in 1..Len(resolvers[d]) : resolvers[d][i].by = t

\* C1: each task's callable has been invoked exactly once from its launch on
\* (never for an entry that is not callable), whatever lookups name the task:
\* a task not yet launched has not been invoked by a lookup, and a launched
\* task is never invoked a second time.
C1_InvokedExactlyOnce ==
  \A t \in Tasks :
    calls[t] = IF Launched(t) /\ ~NotCallable(t) THEN 1 ELSE 0

\* C1 witness: task t waited for d, resumed with d's value and looked d up
\* again after d settled; d was invoked once.
C1_Witness ==
  \E t \in Tasks, d \in Tasks :
    /\ t # d
    /\ Registered(t, d)
    /\ lookups[t] = 2
    /\ MapHas(results, d)
    /\ calls[d] = 1
    /\ \E j \in Deliveries : j.task = t /\ j.dep = d /\ j.st = "fulfilled"

\* C2: an outcome of a sibling d on its way to a requesting task (the reaction
\* of a lookup of d, queued or being recorded) exists only once d's outcome
\* has been recorded.
C2_NoDeliveryBeforeSettled ==
  \A j \in Deliveries :
    (j.dep \in Tasks /\ j.val # FlowAbortedError) => Settled(j.dep)

\* C2 witness: a task that registered as waiter of d is being resumed with
\* d's value.
C2_Witness ==
  \E j \in Deliveries :
    /\ j.dep \in Tasks
    /\ j.st = "fulfilled"
    /\ Registered(j.task, j.dep)
    /\ lookups[j.task] = 1
    /\ MapHas(results, j.dep)

\* C3: in all() and allSettled() the outcome a lookup of a known task d
\* delivers is d's recorded outcome: d's value if d fulfilled, the very error
\* recorded for d if d failed.
C3_DeliversRecordedOutcome ==
  mode \in {"all", "settled"} =>
    \A j \in Deliveries :
      j.dep \in Tasks =>
        \/ j.st = "fulfilled" /\ MapHas(results, j.dep) /\ j.val = MapVal(results, j.dep)
        \/ j.st = "rejected" /\ MapHas(errors, j.dep) /\ j.val = MapVal(errors, j.dep)

\* C3 witness: a task that was a registered waiter of a failed task looks the
\* task up again after the failure and is handed the task's own error.
C3_Witness ==
  /\ mode \in {"all", "settled"}
  /\ \E j \in Deliveries :
       /\ j.dep \in Tasks
       /\ j.st = "rejected"
       /\ j.val = TaskError(j.dep)
       /\ Registered(j.task, j.dep)
       /\ lookups[j.task] = 2

\* C4: no task has both a value and an error recorded, and a recorded outcome
\* is never removed or changed by any step.
C4_OutcomeRecordedOnce ==
  [][/\ MapKeys(results') \cap MapKeys(errors') = {}
     /\ \A t \in MapKeys(results) :
          MapHas(results', t) /\ MapVal(results', t) = MapVal(results, t)
     /\ \A t \in MapKeys(errors) :
          MapHas(errors', t) /\ MapVal(errors', t) = MapVal(errors, t)]_vars

\* C4 witness: one task fulfilled, another failed, and a waiter of the failed
\* task has concluded.
C4_Witness ==
  /\ Len(results) >= 1
  /\ Len(errors) >= 1
  /\ \E t \in Tasks, d \in MapKeys(errors) : t # d /\ Registered(t, d) /\ pc[t] = "done"

Concluded(t) == pc[t] = "done"
Quiescent == phase = "run" /\ mq = <<>>

\* C5: all() resolves only when every task fulfilled, with a result holding
\* exactly one key per task name mapped to that task's value; it rejects only
\* if some task failed; and once every task fulfilled and the reactions have
\* run, it has resolved.
C5_AllResolvesWithEveryValue ==
  mode = "all" =>
    /\ returned.st = "fulfilled" =>
         /\ returned.val = ReturnValueRef
         /\ MapKeys(returnValue) = Tasks
         /\ Len(returnValue) = Cardinality(Tasks)
         /\ \A t \in Tasks :
              MapHas(results, t) /\ MapVal(returnValue, t) = MapVal(results, t)
    /\ returned.st = "rejected" => errors # <<>>
    /\ (Quiescent /\ \A t \in Tasks : MapHas(results, t)) => returned.st = "fulfilled"

\* C5 witness: all() resolved for two tasks, one of which waited for the other.
C5_Witness ==
  /\ mode = "all"
  /\ returned.st = "fulfilled"
  /\ Len(taskNames) = 2
  /\ \E t \in Tasks, d \in Tasks : t # d /\ Registered(t, d)

\* C6: when all() rejects, its reason is the error of the task that failed
\* first in time (the first entry of the insertion-ordered errors map), and
\* later failures leave it unchanged.
C6_FirstFailureWins ==
  (mode = "all" /\ returned.st = "rejected") =>
    errors # <<>> /\ returned.val = errors[1].v

\* C6 witness: all() rejected, two tasks failed with different errors, and the
\* one that failed first is not the first of the task set.
C6_Witness ==
  /\ mode = "all"
  /\ returned.st = "rejected"
  /\ Len(errors) = 2
  /\ errors[1].k = taskNames[2]
  /\ errors[1].v # errors[2].v

\* C7 as stated: in every mode the combined future is settled only when every
\* task has concluded.
C7_Original ==
  returned.st # "pending" => \A t \in Tasks : Concluded(t)

\* C7 amended: the combined future of allSettled() and of flow() settles, and
\* the combined future of all() resolves, only when every task has concluded;
\* a rejection of all() may come while other tasks are still running.
C7_SettlesAfterAllConcluded ==
  (returned.st # "pending" /\ (mode # "all" \/ returned.st = "fulfilled")) =>
    \A t \in Tasks : Concluded(t)

\* C7 witness: allSettled() resolved with two tasks, one of which failed.
C7_Witness ==
  /\ mode = "settled"
  /\ returned.st = "fulfilled"
  /\ Len(taskNames) = 2
  /\ Len(errors) >= 1

\* C8: allSettled() never rejects; when it has resolved, its result holds
\* exactly one entry per task name, {fulfilled, value} with the task's value or
\* {rejected, reason} with the task's own error; and once every task has
\* concluded and the reactions have run, it has resolved.
C8_SettledResult ==
  mode = "settled" =>
    /\ returned.st # "rejected"
    /\ finalPromise.st # "rejected"
    /\ returned.st = "fulfilled" =>
         /\ returned.val = ReturnValueRef
         /\ MapKeys(returnValue) = Tasks
         /\ Len(returnValue) = Cardinality(Tasks)
         /\ \A t \in Tasks :
              \/ /\ MapHas(results, t)
                 /\ MapVal(returnValue, t) =
                      [status |-> "fulfilled", value |-> MapVal(results, t)]
              \/ /\ MapHas(errors, t)
                 /\ MapVal(returnValue, t) =
                      [status |-> "rejected", reason |-> MapVal(errors, t)]
    /\ (Quiescent /\ \A t \in Tasks : Concluded(t)) => returned.st = "fulfilled"

\* C8 witness: allSettled() resolved with one fulfilled and one failed task.
C8_Witness ==
  /\ mode = "settled"
  /\ returned.st = "fulfilled"
  /\ Len(results) >= 1
  /\ Len(errors) >= 1

\* C9 as stated: in all(), once a task has failed with E the internal token is
\* cancelled with cause E, for every failed task (here even with the external
\* token never cancelled).
C9_Original ==
  (mode = "all" /\ ~signal.aborted) =>
    \A i \in 1..Len(errors) :
      internalSignal.aborted /\ internalSignal.reason = errors[i].v

\* C9 amended: in all(), once a task has failed the internal token is
\* cancelled; its cause is the error of the first task that failed, unless the
\* external token had cancelled it before, in which case it keeps that cause.
C9_FailureCancelsToken ==
  (mode = "all" /\ errors # <<>>) =>
    /\ internalSignal.aborted
    /\ \/ internalSignal.reason = errors[1].v
       \/ signal.aborted /\ internalSignal.reason = signal.reason

\* C9 witness: one task failed, a sibling is still suspended, and the token
\* carries the failed task's error.
C9_Witness ==
  /\ mode = "all"
  /\ Len(errors) = 1
  /\ internalSignal.aborted
  /\ internalSignal.reason = errors[1].v
  /\ \E t \in Tasks : pc[t] \in {"ext", "dep"}

\* C10: in allSettled() the internal token is cancelled only if the external
\* token has been cancelled, however many tasks failed.
C10_SettledNeverCancels ==
  (mode = "settled" /\ internalSignal.aborted) =>
    signal.present /\ signal.aborted /\ internalSignal.reason = signal.reason

\* C10 witness: two tasks failed under allSettled() with a live external
\* token, and the internal token is not cancelled.
C10_Witness ==
  /\ mode = "settled"
  /\ Len(errors) = 2
  /\ signal.present
  /\ ~internalSignal.aborted

\* The value flow() resolves to when nothing makes it reject.
FlowValue == IF flowEnded THEN flowEndValue ELSE Undefined
AllConcluded == \A t \in Tasks : Concluded(t)

EndRequest(t) ==
  /\ pc[t] # "concluding"
  /\ pc'[t] = "concluding"
  /\ mq' # <<>>
  /\ mq'[Len(mq')] = Job("settle", t, "-", "rejected", FlowEndError(t))
BodyEnded(t) == pc[t] \in {"concluding", "done"}

\* C12: the early-exit state is write-once.  The first termination request
\* sets the ended flag and the carried value; a later request leaves both as
\* they are; nothing but a termination request changes them; and the body of
\* a task that requested termination (like any body that ended) never runs
\* another step.
C12_EndWriteOnce ==
  [][ /\ \A t \in Tasks :
           EndRequest(t) =>
             /\ flowEnded'
             /\ flowEndValue' = IF flowEnded THEN flowEndValue ELSE TaskValue(t)
      /\ <<flowEnded, flowEndValue>>' # <<flowEnded, flowEndValue>> =>
           ~flowEnded /\ \E t \in Tasks : EndRequest(t)
      /\ \A t \in Tasks :
           BodyEnded(t) =>
             /\ pc'[t] \in {"concluding", "done"}
             /\ lookups'[t] = lookups[t]
             /\ calls'[t] = calls[t] ]_vars

\* C12 witness: task a's termination request is on its way to the catch while
\* the recorded value is still the one task b's earlier request carried.
C12_Witness ==
  /\ flowEnded
  /\ flowEndValue = TaskValue("b")
  /\ \E i \in 1..Len(mq) : mq[i] = Job("settle", "a", "-", "rejected", FlowEndError("a"))
  /\ pc["a"] = "concluding"

\* Task t is suspended on the promise its lookup of d handed out.
WaitsOn(t, d) ==
  /\ pc[t] = "dep"
  /\ \E i \in 1..Len(resolvers[d]) : resolvers[d][i] = [by |-> t, id |-> lookups[t]]

\* C13 as stated: in flow mode, once termination has been requested and every
\* reaction that was queued has run, no task is still suspended on a lookup of
\* a sibling that has concluded, so no pending lookup stays suspended forever.
C13_Original ==
  (flowMode /\ flowEnded /\ Quiescent) =>
    \A t \in Tasks : \A d \in Tasks : ~(WaitsOn(t, d) /\ Concluded(d))

\* Task t issued a dependency lookup in this step.
LookupStep(t) == lookups'[t] = lookups[t] + 1

\* C14: in flow mode, a lookup of a task-set name issued after termination was
\* requested registers no waiter and hands the task a promise already
\* rejected with the flow-ended marker, whatever outcome the sibling has.
C14_LookupAfterEndRejected ==
  [][ \A t \in Tasks :
        (flowMode /\ flowEnded /\ LookupStep(t)) =>
          /\ resolvers' = resolvers
          /\ mq' # <<>>
          /\ LET j == mq'[Len(mq')] IN
               /\ j.type = "resume" /\ j.task = t /\ j.st = "rejected"
               /\ j.dep \in Tasks => j.val = FlowAbortedError ]_vars

\* C14 witness: task a's value is recorded, termination has been requested,
\* and task b's later lookup of a was rejected with the flow-ended marker.
C14_Witness ==
  /\ flowMode /\ flowEnded
  /\ MapHas(results, "a")
  /\ \E i \in 1..Len(mq) :
       mq[i] = Job("resume", "b", "a", "rejected", FlowAbortedError)

\* The wrapper of task t resumes in this step with a flow marker thrown by the
\* task's body.
MarkerConclusion(t) ==
  /\ mq # <<>>
  /\ Head(mq).type = "settle" /\ Head(mq).task = t
  /\ Head(mq).st = "rejected" /\ IsFlowMarker(Head(mq).val)
  /\ pc'[t] = "done"

\* C15: in flow mode no flow marker is ever the rejection reason of the
\* combined future, of a wrapper promise or a recorded error outcome, and a
\* task concluding by a marker has its wrapper promise fulfilled with no
\* outcome recorded and the internal signal left alone.
C15_MarkersStayInternal ==
  /\ [](flowMode =>
          /\ returned.st = "rejected" => ~IsFlowMarker(returned.val)
          /\ finalPromise.st = "rejected" => ~IsFlowMarker(finalPromise.val)
          /\ \A i \in 1..Len(errors) : ~IsFlowMarker(errors[i].v)
          /\ \A t \in Tasks :
               promises[t].st = "rejected" => ~IsFlowMarker(promises[t].val))
  /\ [][ \A t \in Tasks :
           (flowMode /\ MarkerConclusion(t)) =>
             /\ promises'[t] = Fulfilled(Undefined)
             /\ <<results, errors, internalSignal>>' = <<results, errors, internalSignal>> ]_vars

\* C15 witness: task a ended the flow, task b looked a dependency up and was
\* cut short; neither has a recorded outcome and flow() resolved to a's value.
C15_Witness ==
  /\ flowMode
  /\ Len(taskNames) = 2
  /\ Concluded("a") /\ Concluded("b")
  /\ lookups["a"] = 0 /\ lookups["b"] = 1
  /\ results = <<>> /\ errors = <<>>
  /\ returned = Fulfilled(TaskValue("a"))

\* The errors recorded as task outcomes.
TaskErrors == {errors[i].v : i \in 1..Len(errors)}

C17_Original ==
  /\ \A d \in (DOMAIN resolvers) \ Tasks : resolvers[d] = <<>>
  /\ \A j \in Deliveries :
       j.dep \notin Tasks => j.st = "rejected" /\ j.val = UnknownTaskError(j.dep)

\* The position of task t in the task set.
IndexOf(t) == CHOOSE i \in 1..Len(taskNames) : taskNames[i] = t

\* What C18 says of a non-callable entry x apart from the combined future:
\* x alone fails, with the error naming it, and is never called; every entry
\* is still started once the launch is over; a sibling that concludes under
\* all() or allSettled() has its outcome recorded; no lookup of x stays
\* pending and every delivered one is rejected with x's error (in flow mode
\* with the flow-ended marker once termination was requested).
NotCallableIsLocal(x) ==
  /\ calls[x] = 0 /\ Concluded(x)
  /\ phase = "run" => \A t \in Tasks : Launched(t) /\ (calls[t] = 1 \/ NotCallable(t))
  /\ \A t \in Tasks \ {x} :
       /\ NotAFunctionError(x) # NotAFunctionError(t)
       /\ (~flowMode /\ Concluded(t)) => Settled(t)
       /\ ~WaitsOn(t, x)
  /\ \A j \in Deliveries :
       j.dep = x =>
         /\ j.st = "rejected"
         /\ \/ j.val = NotAFunctionError(x)
            \/ flowMode /\ flowEnded /\ j.val = FlowAbortedError

\* C18 as stated: a non-callable entry fails alone, and under all() the
\* combined future rejects with its error (here even when it is the only
\* non-callable entry of the task set).
C18_Original ==
  \A x \in Tasks :
    NotCallable(x) =>
      /\ NotCallableIsLocal(x)
      /\ (/\ mode = "all"
          /\ returned.st # "pending"
          /\ \A t \in Tasks \ {x} : ~NotCallable(t)) =>
           returned = Rejected(NotAFunctionError(x))

\* C18 amended: a non-callable entry fails alone, and under all() the combined
\* future rejects with its error unless an earlier entry of the task set
\* failed before it, in which case it rejects with that entry's error.
C18_NotCallableFailsAlone ==
  \A x \in Tasks :
    NotCallable(x) =>
      /\ NotCallableIsLocal(x)
      /\ (mode = "all" /\ returned.st # "pending") =>
           \/ returned = Rejected(NotAFunctionError(x))
           \/ \E t \in Tasks :
                /\ IndexOf(t) < IndexOf(x)
                /\ MapHas(errors, t)
                /\ returned = Rejected(MapVal(errors, t))

\* C18 witness: under all(), task a awaited the non-callable entry b, caught
\* the rejection and returned its own value, and the combined future rejected
\* with b's error.
C18_Witness ==
  /\ mode = "all"
  /\ NotCallable("b")
  /\ calls["a"] = 1 /\ lookups["a"] = 1
  /\ MapHas(results, "a")
  /\ \E i \in 1..Len(resolvers["b"]) : resolvers["b"][i].by = "a"
  /\ returned = Rejected(NotAFunctionError("b"))

\* C19: when the external signal is already aborted at the call, the internal
\* signal is aborted with the same reason before the first task is started
\* and stays so: every step of every task runs with its $signal aborted with
\* that reason, in all three modes.
C19_AbortedBeforeLaunch ==
  (signal.present /\ signal.aborted /\ (phase # "init" \/ launched > 0)) =>
    /\ internalSignal.aborted
    /\ internalSignal.reason = signal.reason

\* C19 witness: flow() called with a signal aborted with a falsy reason; both
\* tasks have been started and the internal signal carries that reason.
C19_Witness ==
  /\ flowMode
  /\ signal = [present |-> TRUE, aborted |-> TRUE, reason |-> <<"ext", "falsy">>]
  /\ calls["a"] = 1 /\ calls["b"] = 1
  /\ internalSignal = [aborted |-> TRUE, reason |-> <<"ext", "falsy">>]

\* The external signal is aborted in this step.
ExternalAbortStep == signal.present /\ ~signal.aborted /\ signal'.aborted

CancelStep == ~internalSignal.aborted /\ internalSignal'.aborted

\* The wrapper of task x concludes in this step.
ConcludeStep(x) == pc[x] # "done" /\ pc'[x] = "done"

\* C21: aborting the internal signal changes the signal only.  When the
\* external signal's listener does it, no other part of the state changes;
\* when a failing task does it, the rest of the step is that task's own
\* conclusion: its error is recorded and its own waiters are released, and
\* nothing else happens to any sibling.  An aborted signal stops no task: a
\* suspended task can still return, and every task that concludes under
\* all() or allSettled() has its outcome recorded.
C21_CancellationIsCooperative ==
  /\ [][ CancelStep =>
           IF ExternalAbortStep
             THEN UNCHANGED <<inputVars, phase, launched, engineVars, cleanupAborted,
                              taskVars, promiseVars, mq, debugVars>>
             ELSE \E x \in Tasks :
                    /\ ConcludeStep(x)
                    /\ results' = results
                    /\ errors' = Append(errors, [k |-> x, v |-> internalSignal'.reason])
                    /\ UNCHANGED <<resolvers, flowEnded, flowEndValue>>
                    /\ \A t \in Tasks \ {x} :
                         /\ promises'[t] = promises[t]
                         /\ lookups'[t] = lookups[t] /\ calls'[t] = calls[t]
                         /\ pc'[t] # pc[t] => WaitsOn(t, x) /\ pc'[t] = "notified" ]_vars
  /\ [](internalSignal.aborted =>
          \A t \in Tasks :
            /\ (~flowMode /\ Concluded(t)) => Settled(t)
            /\ (phase = "run" /\ pc[t] = "ext") =>
                 ENABLED (ExternalResume(t, [op |-> "return", dep |-> "-", val |-> TaskValue(t)])))

\* C21 witness: under all() task b awaited a, a failed and aborted the
\* signal, and b, released with a's error, still returned its own value,
\* which is recorded.
C21_Witness ==
  /\ mode = "all"
  /\ internalSignal = [aborted |-> TRUE, reason |-> TaskError("a")]
  /\ Registered("b", "a")
  /\ MapHas(results, "b")

\* C22: in all() the internal signal is aborted only if a task has failed or
\* the external signal has been aborted, and its reason is that failure's
\* error or the external reason; with no failure recorded and the external
\* signal not aborted, every task's $signal is not aborted.
C22_NoSpuriousCancel ==
  (mode = "all" /\ internalSignal.aborted) =>
    \/ errors # <<>> /\ internalSignal.reason = errors[1].v
    \/ signal.present /\ signal.aborted /\ internalSignal.reason = signal.reason

\* C22 witness: under all() with a live external signal, one task has
\* fulfilled, the other is still suspended, and the internal signal is not
\* aborted.
C22_Witness ==
  /\ mode = "all"
  /\ signal.present /\ ~signal.aborted
  /\ MapHas(results, "a")
  /\ pc["b"] = "ext"
  /\ ~internalSignal.aborted

\* The wrapper of task t resumes in this step from the await of the task's
\* call, with the outcome the task's body ended with.
SettleStep(t) ==
  /\ mq # <<>>
  /\ Head(mq).type = "settle" /\ Head(mq).task = t
  /\ ConcludeStep(t)

\* The entry allSettled() reports for an outcome.
SettledEntry(st, val) ==
  IF st = "fulfilled" THEN [status |-> "fulfilled", value |-> val]
  ELSE [status |-> "rejected", reason |-> val]

\* C23: in allSettled() the entry reported for a task is the outcome its own
\* body ended with, written when the task concludes and never before: the
\* error a lookup delivered if the body let it escape, the body's own value
\* if it caught the rejection and returned; a task that made no lookup is
\* reported with its own value or its own error; and no entry of a sibling
\* changes when a task concludes.
C23_SettledDependents ==
  /\ [][ \A t \in Tasks :
           (handleSettled /\ SettleStep(t)) =>
             /\ MapVal(returnValue', t) = SettledEntry(Head(mq).st, Head(mq).val)
             /\ \A i \in 1..Len(returnValue) : returnValue'[i] = returnValue[i] ]_vars
  /\ [](handleSettled =>
          \A i \in 1..Len(returnValue) :
            LET t == returnValue[i].k
                s == returnValue[i].v
            IN /\ Concluded(t)
               /\ s.status = "fulfilled" => s.value = TaskValue(t)
               /\ (s.status = "rejected" /\ lookups[t] = 0) =>
                    s.reason \in {TaskError(t), NotAFunctionError(t)}
               /\ (s.status = "rejected" /\ lookups[t] > 0) =>
                    \/ s.reason \in {TaskError(t)} \cup {UnknownTaskError(d) : d \in UnknownNames}
                    \/ \E d \in Tasks \ {t} : MapHas(errors, d) /\ s.reason = MapVal(errors, d))

\* C23 witness: allSettled() resolved; task a failed, task b awaited a, let
\* the rejection escape and is reported rejected with a's error.
C23_Witness ==
  /\ handleSettled
  /\ returned.st = "fulfilled"
  /\ Len(taskNames) = 2
  /\ Registered("b", "a")
  /\ MapVal(returnValue, "a") = [status |-> "rejected", reason |-> TaskError("a")]
  /\ MapVal(returnValue, "b") = [status |-> "rejected", reason |-> TaskError("a")]

\* C24: the entries are started in task-set order, each callable invoked
\* once, inside the synchronous call: until the call returns no queued
\* reaction runs and no task resumes, the next entry can always be started
\* whatever the earlier ones did, and when the call returns every callable
\* entry has been invoked.
C24_StartedBackToBack ==
  /\ [](/\ \A i \in 1..Len(taskNames) :
             LET t == taskNames[i] IN
               IF i <= launched THEN calls[t] = 1 \/ NotCallable(t) ELSE pc[t] = "idle" /\ calls[t] = 0
        /\ phase = "run" => launched = Len(taskNames)
        /\ (phase = "launch" /\ launched < Len(taskNames)) =>
             ENABLED (\E e \in NextLaunchEndings : Launch(e)))
  /\ [][ phase = "launch" =>
           /\ Len(mq') >= Len(mq) /\ SubSeq(mq', 1, Len(mq)) = mq
           /\ \/ launched' = launched + 1 /\ phase' = "launch"
              \/ launched' = launched /\ launched = Len(taskNames) /\ phase' = "run"
           /\ \A i \in 1..launched : lookups'[taskNames[i]] = lookups[taskNames[i]] ]_vars

\* C24 witness: still inside the call, task a has returned at once (its
\* wrapper has not resumed yet), task b is suspended on a, and both callables
\* have been invoked.
C24_Witness ==
  /\ phase = "launch"
  /\ launched = 2
  /\ calls["a"] = 1 /\ calls["b"] = 1
  /\ pc["a"] = "concluding"
  /\ WaitsOn("b", "a")

\* The settle jobs queued for task t.
SettleJobs(t) == {i \in 1..Len(mq) : mq[i].type = "settle" /\ mq[i].task = t}

\* C25: a task that makes no lookup never waits for a sibling.  It is never
\* suspended on the engine; while it is suspended on its own work it can
\* finish whatever the siblings and the combined future are doing; once its
\* body has ended its wrapper's resumption is queued and runs as soon as it
\* heads the queue; and that step records the task's own outcome (nothing, in
\* flow mode, when the body ended by $end).
C25_IndependentNotDelayed ==
  /\ [](\A t \in Tasks :
          lookups[t] = 0 =>
            /\ pc[t] \notin {"dep", "notified"}
            /\ (phase = "run" /\ pc[t] = "ext") =>
                 ENABLED (ExternalResume(t, [op |-> "return", dep |-> "-", val |-> TaskValue(t)]))
            /\ pc[t] = "concluding" => Cardinality(SettleJobs(t)) = 1
            /\ (phase = "run" /\ SettleJobs(t) # {} /\ Head(mq).task = t) => ENABLED SettleJob)
  /\ [][ \A t \in Tasks :
           (lookups[t] = 0 /\ SettleStep(t)) =>
             IF Head(mq).st = "fulfilled"
               THEN MapHas(results', t) /\ MapVal(results', t) = TaskValue(t)
             ELSE IF flowMode /\ Head(mq).val = FlowEndError(t)
               THEN ~MapHas(results', t) /\ ~MapHas(errors', t)
             ELSE MapHas(errors', t) /\ MapVal(errors', t) = TaskError(t) ]_vars

\* C25 witness: under all() the combined future had already rejected with
\* task a's error when task b, which made no lookup, finished its own work;
\* b's value is recorded (the reaction queued by b's wrapper is still waiting).
C25_Witness ==
  /\ mode = "all"
  /\ returned = Rejected(TaskError("a"))
  /\ lookups["b"] = 0
  /\ MapHas(results, "b")
  /\ mq = <<Job("elem", "b", "-", "fulfilled", Undefined)>>

\* C26: with an empty task set all() and allSettled() never reject and never
\* hang: after the call returned a reaction is queued and can run until the
\* combined future has resolved, to the empty result object; and the internal
\* signal is aborted only if the caller aborted the external one.
C26_EmptyTaskSet ==
  (mode \in {"all", "settled"} /\ taskNames = <<>>) =>
    /\ returned.st # "rejected"
    /\ returnValue = <<>>
    /\ returned.st = "fulfilled" => returned.val = ReturnValueRef
    /\ (phase = "run" /\ returned.st = "pending") => mq # <<>> /\ ENABLED NextCore
    /\ Quiescent => returned.st = "fulfilled"
    /\ internalSignal.aborted =>
         signal.aborted /\ internalSignal.reason = signal.reason

\* C26 witness: allSettled({}) with a live external signal has resolved to
\* the empty result and the internal signal is not aborted.
C26_Witness ==
  /\ mode = "settled"
  /\ taskNames = <<>>
  /\ signal.present
  /\ returned = Fulfilled(ReturnValueRef)
  /\ returnValue = <<>>
  /\ ~internalSignal.aborted

\* C27: with debug on the chart is printed exactly once, by the step that
\* settles the returned promise with the outcome finalPromise already has,
\* whether fulfilled or rejected; with debug off nothing is printed and the
\* returned promise settles with the same outcome.
C27_ReportOnce ==
  /\ [](/\ printed = (IF debug /\ returned.st # "pending" THEN 1 ELSE 0)
        /\ returned.st # "pending" =>
             finalPromise.st # "pending" /\ returned = finalPromise
        /\ (phase = "run" /\ finalPromise.st # "pending" /\ returned.st = "pending") =>
             mq # <<>>)
  /\ [][ printed' # printed =>
           /\ printed' = printed + 1
           /\ finalPromise.st # "pending"
           /\ finalPromise' = finalPromise
           /\ returned.st = "pending" /\ returned' = finalPromise ]_vars

\* C27 witness: all() with debug on rejected with a task's error after the
\* chart was printed once.
C27_Witness ==
  /\ debug
  /\ mode = "all"
  /\ printed = 1
  /\ Len(timings) >= 1
  /\ returned = Rejected(TaskError("a"))

\* The lookups of S delivered with an outcome of S, in queue order.
DeliveriesOf(S, q) ==
  SelectSeq(q, LAMBDA j : /\ j.type \in {"resume", "waitrec"}
                          /\ j.dep = S
                          /\ j.val # FlowAbortedError)

\* The place in queue q of the reaction that resumes task t.
ResumePosition(t, q) ==
  CHOOSE i \in 1..Len(q) : q[i].type = "resume" /\ q[i].task = t

\* C28: when the outcome of S is recorded, every waiter registered on S is
\* released in that very step, in registration order, with that outcome; once
\* the outcome is recorded no waiter is registered on S or left suspended on
\* it; a released task has exactly one reaction queued; and that reaction
\* gets its turn: the engine always has a step to take while a task is
\* released, and a step either resumes the task from the head of the queue,
\* moves its reaction towards the head, or queues behind it.
C28_WaitersNotifiedOnce ==
  /\ [][ \A S \in Tasks :
           /\ (~Settled(S) /\ Settled(S)') =>
                LET st == IF MapHas(results', S) THEN "fulfilled" ELSE "rejected"
                    v == IF MapHas(results', S) THEN MapVal(results', S) ELSE MapVal(errors', S)
                    rs == resolvers[S]
                IN /\ DeliveriesOf(S, mq) = <<>>
                   /\ DeliveriesOf(S, mq') = [i \in 1..Len(rs) |-> Job("resume", rs[i].by, S, st, v)]
                   /\ \A i \in 1..Len(rs) : WaitsOn(rs[i].by, S) /\ pc'[rs[i].by] = "notified"
           /\ Settled(S) => resolvers'[S] = resolvers[S] ]_vars
  /\ [](\A t \in Tasks :
          /\ \A S \in Tasks : Settled(S) => ~WaitsOn(t, S)
          /\ Cardinality({i \in 1..Len(mq) : mq[i].type = "resume" /\ mq[i].task = t})
               = IF pc[t] = "notified" THEN 1 ELSE 0
          /\ pc[t] = "notified" => ENABLED EngineStep)
  /\ [][ \A t \in Tasks :
           (pc[t] = "notified" /\ phase = "run") =>
             \/ ResumePosition(t, mq) = 1 /\ Len(mq') >= Len(mq) - 1
                  /\ SubSeq(mq', 1, Len(mq) - 1) = Tail(mq)
             \/ pc'[t] = "notified" /\ ResumePosition(t, mq') < ResumePosition(t, mq)
             \/ ResumePosition(t, mq') = ResumePosition(t, mq) /\ SubSeq(mq', 1, Len(mq)) = mq ]_vars

\* C28 witness: two waiters of task a were released by a's failure; their
\* reactions are queued in registration order.
C28_Witness ==
  /\ MapHas(errors, "a")
  /\ Len(resolvers["a"]) = 2
  /\ DeliveriesOf("a", mq) =
       [i \in 1..2 |-> Job("resume", resolvers["a"][i].by, "a", "rejected", MapVal(errors, "a"))]


\* Some tasks wait for each other in a circle (a task waiting for itself
\* included).
WaitCycle ==
  \E C \in (SUBSET Tasks) \ {{}} : \A t \in C : \E d \in C : WaitsOn(t, d)

\* Some task is suspended on a lookup of a name that is no task of the set.
WaitsOnNoTask ==
  \E t \in Tasks : \E d \in (DOMAIN resolvers) \ Tasks : WaitsOn(t, d)

\* Some task is still busy with work of its own (a timer, I/O), which will
\* finish.
OwnWorkPending == \E t \in Tasks : pc[t] = "ext"

\* C29 as stated: in flow mode, with no circle of waiting tasks (and no task
\* waiting for a name outside the task set), the run is never stuck before the
\* combined future has settled: either the future has settled, or some task
\* still has work of its own to finish, or the engine has a step to take.
C29_Original ==
  (flowMode /\ ~WaitCycle /\ ~WaitsOnNoTask) =>
    \/ returned.st # "pending"
    \/ OwnWorkPending
    \/ ENABLED EngineStep


\* C30 as stated: in all() and allSettled(), with no circle of waiting tasks,
\* the run is never stuck before every task's outcome is recorded and the
\* combined future has settled: either both have happened, or some task still
\* has work of its own to finish, or the engine has a step to take.
C30_Original ==
  (mode \in {"all", "settled"} /\ ~WaitCycle) =>
    \/ returned.st # "pending" /\ \A t \in Tasks : Settled(t)
    \/ OwnWorkPending
    \/ ENABLED EngineStep


\* C31: once the combined future has settled the listener on the external
\* signal is gone, and no later step, a cancellation of the external signal
\* included, changes the internal signal: one that was not cancelled at
\* settlement stays not cancelled.
C31_ListenerReleased ==
  /\ [](returned.st # "pending" => ~listening)
  /\ [][ returned.st # "pending" => internalSignal' = internalSignal ]_vars

\* C31 witness: the external signal was cancelled after the combined future of
\* two tasks had settled, and the internal signal is still not cancelled.
C31_Witness ==
  /\ returned.st # "pending"
  /\ Len(taskNames) = 2
  /\ signal.aborted
  /\ cleanupAborted
  /\ ~internalSignal.aborted


\* C32: once the internal signal is aborted no step changes it: it stays
\* aborted and keeps the cause of the first cancellation, whatever task fails
\* and whatever the external signal does afterwards.
C32_TokenMonotonic ==
  [][ internalSignal.aborted => internalSignal' = internalSignal ]_vars

\* C32 witness: two tasks failed with different errors, the external signal
\* was cancelled after the first failure, and the internal signal still
\* carries the first error.
C32_Witness ==
  /\ Len(errors) = 2
  /\ errors[1].v # errors[2].v
  /\ signal.aborted
  /\ signal.reason # errors[1].v
  /\ internalSignal.aborted
  /\ internalSignal.reason = errors[1].v
  /\ mode # "settled"


\* C33: in all(), whenever the error of a failed task is on its way to a task
\* (queued for a waiter or for a later lookup) the internal signal is already
\* aborted; whenever the combined future is rejected the internal signal is
\* aborted, and without an external signal its cause is the rejection reason.
C33_AbortBeforeObservers ==
  mode = "all" =>
    /\ \A j \in Deliveries :
         (j.dep \in Tasks /\ j.st = "rejected") => internalSignal.aborted
    /\ returned.st = "rejected" =>
         /\ internalSignal.aborted
         /\ ~signal.present => internalSignal.reason = returned.val

\* C33 witness: without an external signal, a waiter of a failed task is about
\* to resume with its error, the combined future is already rejected with that
\* error and the internal signal carries it.
C33_Witness ==
  /\ mode = "all"
  /\ ~signal.present
  /\ returned.st = "rejected"
  /\ internalSignal.reason = returned.val
  /\ \E j \in Deliveries :
       /\ j.dep \in Tasks
       /\ j.st = "rejected"
       /\ Registered(j.task, j.dep)
       /\ j.val = returned.val


\* The failed tasks, in task-set order.
FailedInOrder == SelectSeq(taskNames, LAMBDA t : MapHas(errors, t))

\* C34: in flow mode with the external signal not aborted, once the combined
\* future has settled with some task failed, it is rejected with the error of
\* the failed task that comes first in the task set, whichever task failed
\* first in time and whether or not termination was requested.
C34_FirstInTaskOrder ==
  (flowMode /\ returned.st # "pending" /\ errors # <<>>
     /\ ~(signal.present /\ signal.aborted)) =>
    returned = Rejected(MapVal(errors, FailedInOrder[1]))

\* C34 witness: both tasks failed with different errors, the second of the
\* task set first in time, and flow() rejected with the error of the first.
C34_Witness ==
  /\ flowMode
  /\ Len(errors) = 2
  /\ errors[1].k = taskNames[2]
  /\ errors[1].v # errors[2].v
  /\ ~signal.aborted
  /\ returned = Rejected(errors[2].v)


\* The combined future settles in this step while the external signal is
\* aborted.
SettlesUnderAbort ==
  /\ returned.st = "pending"
  /\ returned'.st # "pending"
  /\ signal.present /\ signal.aborted

\* C35 as stated: in flow mode, when the combined future settles of two tasks
\* with the external signal aborted, it rejects with the signal's cause.
C35_Original ==
  [][ (flowMode /\ Len(taskNames) = 2 /\ SettlesUnderAbort) =>
        returned' = Rejected(signal.reason) ]_vars

\* C35 amended: in flow mode, when the combined future settles with the
\* external signal aborted, it rejects with the signal's cause if that cause
\* is truthy and with a generic "Aborted" error otherwise, whether every task
\* fulfilled, a task requested termination or a task failed.
C35_AbortTakesPrecedence ==
  [][ (flowMode /\ SettlesUnderAbort) =>
        returned' = Rejected(IF Truthy(signal.reason) THEN signal.reason
                             ELSE AbortedError) ]_vars

\* C35 witness: one task requested termination, the other failed, the external
\* signal was aborted while they ran, and flow() rejected with its cause.
C35_Witness ==
  /\ flowMode
  /\ flowEnded
  /\ errors # <<>>
  /\ signal.aborted
  /\ internalSignal.aborted
  /\ cleanupAborted
  /\ returned = Rejected(signal.reason)
  /\ returned.val \notin TaskErrors


\* C36: in flow mode the internal signal is aborted only with the error of a
\* task that failed or with the reason of the aborted external signal; a
\* termination request leaves it as it is.
C36_EndNeverCancels ==
  flowMode =>
    (internalSignal.aborted =>
       \/ errors # <<>> /\ internalSignal.reason = errors[1].v
       \/ signal.present /\ signal.aborted /\ internalSignal.reason = signal.reason)

\* C36 witness: a task requested termination and has concluded, its sibling is
\* still busy, and the internal signal is not aborted.
C36_Witness ==
  /\ flowMode
  /\ flowEnded
  /\ \E t \in Tasks : pc[t] = "done" /\ ~Settled(t)
  /\ \E t \in Tasks : pc[t] = "ext"
  /\ phase = "run"
  /\ ~internalSignal.aborted


\* C37: the external signal changes only when its owner aborts it, in a step
\* that is no step of the engine or of a task (no outcome is recorded, no task
\* moves, no reaction runs); every other step, a task failure included,
\* leaves the external signal as it is.
C37_ExternalTokenUntouched ==
  [][ signal' # signal =>
        /\ ExternalAbortStep
        /\ UNCHANGED <<results, errors, pc, mq, promises, returned>> ]_vars

\* C37 witness: under all() a task failed and the internal signal carries its
\* error, the combined future is rejected, and the external signal is still
\* not aborted.
C37_Witness ==
  /\ mode = "all"
  /\ errors # <<>>
  /\ internalSignal = [aborted |-> TRUE, reason |-> errors[1].v]
  /\ returned.st = "rejected"
  /\ signal = [present |-> TRUE, aborted |-> FALSE, reason |-> None]


\* The tasks of C wait for each other in a circle: each of them is suspended on
\* a lookup of a member of C.
MutualWait(C) == C # {} /\ \A t \in C : \E d \in C : WaitsOn(t, d)

\* C38: under allSettled(), tasks that wait for each other in a circle (a task
\* waiting for itself included) have no outcome recorded and the combined
\* future is pending, and no step, an abort of the external signal included,
\* ends the circle: it lasts forever, so neither ever changes.
C38_MutualWaitDeadlocks ==
  /\ [](mode = "settled" =>
          \A C \in SUBSET Tasks :
            MutualWait(C) => returned.st = "pending" /\ \A t \in C : ~Settled(t))
  /\ [][ mode = "settled" =>
           \A C \in SUBSET Tasks : MutualWait(C) => MutualWait(C)' ]_vars

\* C38 witness: a waits for b, b waits for a, every reaction has run and the
\* external signal has been aborted; nothing is recorded.
C38_Witness ==
  /\ mode = "settled"
  /\ Quiescent
  /\ WaitsOn("a", "b")
  /\ WaitsOn("b", "a")
  /\ signal.aborted
  /\ results = <<>> /\ errors = <<>>
  /\ returned.st = "pending"


\* C39 as stated, its conclusion: in debug mode every name in a task's
\* recorded dependency set is a name of the task set (a lookup of any other
\* name is not recorded).
C39_Original ==
  debug => \A t \in Tasks : taskDependencies[t] \subseteq Tasks


\* The telemetry entries recorded for task t.
EntriesOf(t) == SelectSeq(timings, LAMBDA e : e.name = t)

\* C40 as stated: in debug mode under allSettled(), once the combined future
\* has resolved there is exactly one telemetry entry per task, its status is
\* the kind of the task's recorded outcome, and it carries the start timestamp
\* taken at the task's launch, whether or not the entry is callable.
C40_Original ==
  (debug /\ mode = "settled" /\ returned.st = "fulfilled") =>
    \A t \in Tasks :
      /\ Len(EntriesOf(t)) = 1
      /\ EntriesOf(t)[1].status = (IF MapHas(results, t) THEN "fulfilled" ELSE "rejected")
      /\ EntriesOf(t)[1].hasStart

====
